---- MODULE Spec2Model ----
(***************************************************************************)
(* TreeSet<T, Compare> (treeset.h): an ordered set stored in an unbalanced *)
(* binary search tree of reference-counted nodes.                          *)
(*                                                                         *)
(* The heap is three functions over node identities (value, left, right);  *)
(* a set object is a root link and a stored size.  A node that no live set *)
(* reaches any more has lost its last shared_ptr and is returned to the    *)
(* free pool.  Every member function is one atomic action, translated      *)
(* statement by statement, including the assert(sanity_check(_root)) calls *)
(* that exist in a build without NDEBUG.                                   *)
(***************************************************************************)
EXTENDS Integers, Sequences, FiniteSets, TLC

\* ---------------------------------------------------------------- bounds
\* Number of node identities the allocator can hand out.
MaxNodes == 4
\* The element domain T is MinT..MaxT; MinT and MaxT play
\* std::numeric_limits<T>::min() and std::numeric_limits<T>::max().
MaxT == 3

\* Number of calls a behaviour is followed for from its first move between
\* two set objects on, that move included.
MaxSince == 3

\* The stored size is followed up to this value.
MaxSize == MaxNodes

\* Length of the lists a set is constructed from.
MaxList == 3

\* Advances a cursor is followed for from begin().
MaxSteps == MaxNodes + 2

MinT == 0
NULL == 0
Nodes == 1..MaxNodes
\* Node identities of a set that a call builds and returns by value.
TmpNodes == (MaxNodes + 1)..(2 * MaxNodes)
AllNodes == Nodes \cup TmpNodes
Vals == MinT..MaxT

\* Set objects of the program: two variables of type TreeSet<T, Compare>.
Sets == {"a", "b"}

\* The Compare template argument: std::less<T>, std::greater<T>, and a
\* user comparator that orders by v / 2, a strict weak ordering under which
\* distinct values can be equivalent.
Comparators == {"less", "greater", "coarse"}

VARIABLES
  cmp,      \* the Compare type the sets are instantiated with
  debug,    \* TRUE: built without NDEBUG, assert() is active
  value,    \* node::value
  left,     \* node::left  (NULL: empty shared_ptr)
  right,    \* node::right
  live,     \* live[t]: the set object t is constructed
  root,     \* TreeSet::_root
  size,     \* TreeSet::_size
  status,   \* "running", "aborted" (an assert failed), "diverged" (a call never returns)
  since,    \* calls made since, and with, the first move between two sets; 0 before it
  last,     \* the call made last, see Call
  cursor,   \* the cursor the client walks a set with, see NoIter
  out       \* what the last call returned when it is a set or a text, see NoOut

vars == <<cmp, debug, value, left, right, live, root, size, status, since, last,
          cursor, out>>

\* ------------------------------------------------------------ comparator
\* _cmp(a, b)
Cmp(a, b) ==
  CASE cmp = "less" -> a < b
    [] cmp = "greater" -> a > b
    [] OTHER -> (a \div 2) < (b \div 2)

\* Comparator equivalence: neither a before b nor b before a.
Equiv(a, b) == ~Cmp(a, b) /\ ~Cmp(b, a)

\* ------------------------------------------------------------------ heap
Heap == [value |-> value, left |-> left, right |-> right]

Min(S) == CHOOSE x \in S : \A y \in S : x <= y

RECURSIVE ReachFrom(_, _, _)
ReachFrom(h, frontier, seen) ==
  IF frontier = {} THEN seen
  ELSE LET next == ({h.left[x] : x \in frontier} \cup {h.right[x] : x \in frontier})
                     \ ({NULL} \cup seen \cup frontier)
       IN ReachFrom(h, next, seen \cup frontier)

\* Nodes kept alive by the link n.
Reach(h, n) == ReachFrom(h, {n} \ {NULL}, {})

\* Nodes kept alive by the roots of the live sets in rt.
ReachAll(h, rt, lv) == ReachFrom(h, {rt[t] : t \in {u \in Sets : lv[u]}} \ {NULL}, {})

\* Node identities the allocator can hand out in the current state.
Free == Nodes \ ReachAll(Heap, root, live)

\* std::make_shared<node>(v): node(const T &value), both links empty.
NewNode(h, id, v) ==
  [value |-> [h.value EXCEPT ![id] = v],
   left  |-> [h.left  EXCEPT ![id] = NULL],
   right |-> [h.right EXCEPT ![id] = NULL]]

\* The nodes the live sets reach, each once, in the order a preorder walk
\* from the roots meets them.
RECURSIVE Preorder(_, _, _)
Preorder(h, todo, acc) ==
  IF todo = <<>> THEN acc
  ELSE LET n == Head(todo) IN
       IF n = NULL \/ (\E i \in 1..Len(acc) : acc[i] = n)
       THEN Preorder(h, Tail(todo), acc)
       ELSE Preorder(h, <<h.left[n], h.right[n]>> \o Tail(todo), Append(acc, n))

\* Release of every node whose reference count dropped to zero.  A node's
\* identity is its address, which no operation of the set reads except to
\* compare links, so the heap is kept up to renaming: the nodes still
\* referenced are renumbered 1, 2, ... in preorder from the roots.
\* The result is the heap with the roots rt renamed along.
Release(h, rt, lv) ==
  LET ord == Preorder(h, <<IF lv["a"] THEN rt["a"] ELSE NULL,
                           IF lv["b"] THEN rt["b"] ELSE NULL>>, <<>>)
      new(n) == IF n = NULL THEN NULL ELSE CHOOSE i \in 1..Len(ord) : ord[i] = n
  IN [value |-> [i \in Nodes |-> IF i <= Len(ord) THEN h.value[ord[i]] ELSE MinT],
      left  |-> [i \in Nodes |-> IF i <= Len(ord) THEN new(h.left[ord[i]]) ELSE NULL],
      right |-> [i \in Nodes |-> IF i <= Len(ord) THEN new(h.right[ord[i]]) ELSE NULL],
      root  |-> [t \in Sets |-> IF lv[t] THEN new(rt[t]) ELSE NULL]]

\* ---------------------------------------------------------- sanity_check
\* Mutant of SanityCheck: the absent subtree is accepted whatever the bounds.
RECURSIVE SanityCheckLeavesTrue(_, _, _, _, _)
SanityCheckLeavesTrue(h, n, minval, maxval, path) ==
  IF n = NULL THEN "true"
  ELSE IF n \in path THEN "overflow"
  ELSE LET l == SanityCheckLeavesTrue(h, h.left[n], minval, h.value[n], path \cup {n}) IN
       IF l = "true"
       THEN SanityCheckLeavesTrue(h, h.right[n], h.value[n], maxval, path \cup {n})
       ELSE l

\* sanity_check(n, minval, maxval): "true", "false", or "overflow" when the
\* recursion never ends (a node that is its own descendant).  The node test
\* only prints to cerr; the result comes from the two recursive calls.
RECURSIVE SanityCheck(_, _, _, _, _)
SanityCheck(h, n, minval, maxval, path) ==
  IF n = NULL THEN (IF Cmp(minval, maxval) THEN "true" ELSE "false")
  ELSE IF n \in path THEN "overflow"
  ELSE LET l == SanityCheck(h, h.left[n], minval, h.value[n], path \cup {n}) IN
       IF l = "true"
       THEN SanityCheck(h, h.right[n], h.value[n], maxval, path \cup {n})
       ELSE l

\* sanity_check(n): the bounds are numeric_limits min/max, swapped when the
\* comparator orders them the other way round.
SanityCheckRoot(h, n) ==
  IF Cmp(MinT, MaxT) THEN SanityCheck(h, n, MinT, MaxT, {})
  ELSE SanityCheck(h, n, MaxT, MinT, {})

\* assert(sanity_check(n)): the status the program is in after the assert.
SanityAssert(h, n) ==
  IF ~debug THEN "running"
  ELSE LET r == SanityCheckRoot(h, n) IN
       IF r = "true" THEN "running" ELSE IF r = "false" THEN "aborted" ELSE "diverged"

\* ------------------------------------------------------------------- add
\* Mutant of AddWalk: the leaf is put below the root at once, whatever the
\* slot holds.
AddWalkNoDescent(h, n, v, seen) ==
  IF n = NULL THEN [kind |-> "fell", node |-> NULL]
  ELSE IF v = h.value[n] THEN [kind |-> "exists", node |-> n]
  ELSE IF Cmp(v, h.value[n]) THEN [kind |-> "left", node |-> n]
  ELSE [kind |-> "right", node |-> n]

\* The descent loop of add: where it ends for value v started at n.
\*   "exists": value == n->value;  "left"/"right": the slot of node is empty
\*   and takes the new leaf;  "fell": n == nullptr ended the loop;
\*   "loop": the descent never ends.
RECURSIVE AddWalk(_, _, _, _)
AddWalk(h, n, v, seen) ==
  IF n = NULL THEN [kind |-> "fell", node |-> NULL]
  ELSE IF n \in seen THEN [kind |-> "loop", node |-> n]
  ELSE IF v = h.value[n] THEN [kind |-> "exists", node |-> n]
  ELSE IF Cmp(v, h.value[n])
       THEN IF h.left[n] = NULL THEN [kind |-> "left", node |-> n]
            ELSE AddWalk(h, h.left[n], v, seen \cup {n})
       ELSE IF h.right[n] = NULL THEN [kind |-> "right", node |-> n]
            ELSE AddWalk(h, h.right[n], v, seen \cup {n})

\* _size++
AddSize(n) == n + 1

\* What one call add(v) on a set with root rt and size sz does: the heap,
\* root and size it leaves, its return value, and the program status.
\* oom: the call needs a node and the pool is empty (outside the bounds).
AddCall(h, rt, sz, v, free) ==
  LET same == [h |-> h, root |-> rt, size |-> sz, ret |-> FALSE, oom |-> FALSE]
      id == IF free = {} THEN NULL ELSE Min(free)
  IN
  IF SanityAssert(h, rt) # "running" THEN same @@ [status |-> SanityAssert(h, rt)]
  ELSE IF sz = 0 THEN
    IF id = NULL THEN [same EXCEPT !.oom = TRUE] @@ [status |-> "running"]
    ELSE LET h1 == NewNode(h, id, v) IN
         [h |-> h1, root |-> id, size |-> 1, ret |-> TRUE, oom |-> FALSE,
          status |-> SanityAssert(h1, id)]
  ELSE LET w == AddWalk(h, rt, v, {}) IN
    CASE w.kind = "exists" -> same @@ [status |-> "running"]
      [] w.kind = "loop" -> same @@ [status |-> "diverged"]
      [] w.kind = "fell" -> same @@ [status |-> SanityAssert(h, rt)]
      [] OTHER ->
         IF id = NULL THEN [same EXCEPT !.oom = TRUE] @@ [status |-> "running"]
         ELSE LET h1 == NewNode(h, id, v)
                  h2 == IF w.kind = "left"
                        THEN [h1 EXCEPT !.left[w.node] = id]
                        ELSE [h1 EXCEPT !.right[w.node] = id]
              IN [h |-> h2, root |-> rt, size |-> AddSize(sz), ret |-> TRUE,
                  oom |-> FALSE, status |-> "running"]

\* ----------------------------------------------------------------- merge
\* Mutant of Leftmost: the loop is skipped and big itself is taken.
LeftmostIsBig(h, n, seen) == n

\* The loop of merge: the leftmost node below n, NULL when it never ends.
RECURSIVE Leftmost(_, _, _)
Leftmost(h, n, seen) ==
  IF n \in seen THEN NULL
  ELSE IF h.left[n] = NULL THEN n
  ELSE Leftmost(h, h.left[n], seen \cup {n})

\* Mutant of Merge: with both subtrees present big is returned without small
\* attached below it.
MergeDropsSmall(h, small, big) ==
  IF big = NULL THEN [h |-> h, top |-> small, returns |-> TRUE]
  ELSE [h |-> h, top |-> big, returns |-> TRUE]

\* merge(small, big): the heap it leaves, the link it returns, and whether
\* it returns at all.
Merge(h, small, big) ==
  IF small = NULL THEN [h |-> h, top |-> big, returns |-> TRUE]
  ELSE IF big = NULL THEN [h |-> h, top |-> small, returns |-> TRUE]
  ELSE LET n == Leftmost(h, big, {}) IN
       IF n = NULL THEN [h |-> h, top |-> NULL, returns |-> FALSE]
       ELSE [h |-> [h EXCEPT !.left[n] = small], top |-> big, returns |-> TRUE]

\* Mutant of ReplaceChild: both slots of p take the new child.
ReplaceChildBothSlots(h, p, old_child, new_child) ==
  [h EXCEPT !.left[p] = new_child, !.right[p] = new_child]

\* node::replace_child(old_child, new_child) on node p.
ReplaceChild(h, p, old_child, new_child) ==
  IF h.left[p] = old_child
  THEN [h EXCEPT !.left[p] = new_child]
  ELSE [h EXCEPT !.right[p] = new_child]

\* ------------------------------------------------------------------- del
\* The descent loop of del, tracking the parent.
RECURSIVE DelWalk(_, _, _, _, _)
DelWalk(h, n, parent, v, seen) ==
  IF n = NULL THEN [kind |-> "fell", node |-> NULL, parent |-> parent]
  ELSE IF n \in seen THEN [kind |-> "loop", node |-> n, parent |-> parent]
  ELSE IF v = h.value[n] THEN [kind |-> "found", node |-> n, parent |-> parent]
  ELSE IF Cmp(v, h.value[n])
       THEN DelWalk(h, h.left[n], n, v, seen \cup {n})
       ELSE DelWalk(h, h.right[n], n, v, seen \cup {n})

\* Mutant of DelSize: the decrement is forgotten.
DelSizeKept(n) == n

\* _size--
DelSize(n) == n - 1

\* What one call del(v) does.
DelCall(h, rt, sz, v) ==
  LET same == [h |-> h, root |-> rt, size |-> sz, ret |-> FALSE] IN
  IF SanityAssert(h, rt) # "running" THEN same @@ [status |-> SanityAssert(h, rt)]
  ELSE IF sz = 0 THEN same @@ [status |-> "running"]
  ELSE LET w == DelWalk(h, rt, NULL, v, {}) IN
    CASE w.kind = "loop" -> same @@ [status |-> "diverged"]
      [] w.kind = "fell" -> same @@ [status |-> SanityAssert(h, rt)]
      [] OTHER ->
         LET m == Merge(h, h.left[w.node], h.right[w.node]) IN
         IF ~m.returns THEN same @@ [status |-> "diverged"]
         ELSE IF w.parent = NULL
         THEN [h |-> m.h, root |-> m.top, size |-> DelSize(sz), ret |-> TRUE,
               status |-> "running"]
         ELSE [h |-> ReplaceChild(m.h, w.parent, w.node, m.top), root |-> rt,
               size |-> DelSize(sz), ret |-> TRUE, status |-> "running"]

\* -------------------------------------------------------------- contains
RECURSIVE ContainsWalk(_, _, _, _)
ContainsWalk(h, n, v, seen) ==
  IF n = NULL THEN "false"
  ELSE IF n \in seen THEN "loop"
  ELSE IF v = h.value[n] THEN "true"
  ELSE IF Cmp(v, h.value[n]) THEN ContainsWalk(h, h.left[n], v, seen \cup {n})
  ELSE ContainsWalk(h, h.right[n], v, seen \cup {n})

\* contains(v): "true", "false", or "loop" when the call never returns.
ContainsCall(h, rt, sz, v) ==
  IF sz = 0 THEN "false" ELSE ContainsWalk(h, rt, v, {})

\* Mutant of CopyNode: the node is copied without the subtrees below it.
CopyNodeRootOnly(h, free, other, path) ==
  IF free = {}
  THEN [h |-> h, free |-> free, id |-> NULL, returns |-> TRUE, oom |-> TRUE]
  ELSE [h |-> NewNode(h, Min(free), h.value[other]), free |-> free \ {Min(free)},
        id |-> Min(free), returns |-> TRUE, oom |-> FALSE]

\* ---------------------------------------------------- copy construction
\* node::node(const sp_node &other) for other != nullptr, with the
\* make_shared that allocates the node: the deep copy of the subtree below
\* other.  returns is FALSE when the recursion never ends (other is its own
\* descendant); oom when the pool is used up.
RECURSIVE CopyNode(_, _, _, _)
CopyNode(h, free, other, path) ==
  IF other \in path
  THEN [h |-> h, free |-> free, id |-> NULL, returns |-> FALSE, oom |-> FALSE]
  ELSE IF free = {}
  THEN [h |-> h, free |-> free, id |-> NULL, returns |-> TRUE, oom |-> TRUE]
  ELSE
    LET id == Min(free)
        h0 == NewNode(h, id, h.value[other])
        l  == IF h.left[other] # NULL
              THEN CopyNode(h0, free \ {id}, h.left[other], path \cup {other})
              ELSE [h |-> h0, free |-> free \ {id}, id |-> NULL,
                    returns |-> TRUE, oom |-> FALSE]
        h1 == [l.h EXCEPT !.left[id] = l.id]
        r  == IF h.right[other] # NULL
              THEN CopyNode(h1, l.free, h.right[other], path \cup {other})
              ELSE [h |-> h1, free |-> l.free, id |-> NULL,
                    returns |-> TRUE, oom |-> FALSE]
    IN IF ~l.returns \/ l.oom THEN l
       ELSE IF ~r.returns \/ r.oom THEN r
       ELSE [h |-> [r.h EXCEPT !.right[id] = r.id], free |-> r.free, id |-> id,
             returns |-> TRUE, oom |-> FALSE]

\* std::make_shared<node>(other._root): as CopyNode, but for an empty
\* other._root the constructor returns at once and leaves a node whose value
\* was never initialised (junk) and whose links are empty.
CopyRoot(h, free, other, junk) ==
  IF other # NULL THEN CopyNode(h, free, other, {})
  ELSE IF free = {}
  THEN [h |-> h, free |-> free, id |-> NULL, returns |-> TRUE, oom |-> TRUE]
  ELSE [h |-> NewNode(h, Min(free), junk), free |-> free \ {Min(free)},
        id |-> Min(free), returns |-> TRUE, oom |-> FALSE]

\* Mutant of CopyCall: the root link is copied, not the tree below it.
CopyCallShallow(h, free, orig_root, orig_size, junk) ==
  [h |-> h, root |-> IF orig_size > 0 THEN orig_root ELSE NULL,
   size |-> orig_size, oom |-> FALSE, status |-> "running"]

\* The body shared by the copy constructor and the copy assignment:
\* _size = other._size; _root = other._size > 0 ? deep copy : nullptr.
CopyCall(h, free, orig_root, orig_size, junk) ==
  IF orig_size > 0
  THEN LET c == CopyRoot(h, free, orig_root, junk) IN
       [h |-> c.h, root |-> c.id, size |-> orig_size, oom |-> c.oom,
        status |-> IF c.returns THEN "running" ELSE "diverged"]
  ELSE [h |-> h, root |-> NULL, size |-> orig_size, oom |-> FALSE,
        status |-> "running"]

\* ---------------------------------------------------- move construction
\* TreeSet(TreeSet &&other) : _root(other._root), _size(other._size) { }
MoveCtorCall(h, other_root, other_size) ==
  [h |-> h, root |-> other_root, size |-> other_size, status |-> "running"]

\* operator=(TreeSet &&other) for this != &other.
MoveAssignCall(h, other_root, other_size) ==
  [h |-> h, root |-> IF other_size > 0 THEN other_root ELSE NULL,
   size |-> other_size, status |-> "running"]

\* ---------------------------------------------------------- TreeSetIter
\* A cursor: _next_node_stack (top is the last element), _current_node, and
\* whether the call that produced it returned (ends).
Iter(stack, cur, ends) == [stack |-> stack, cur |-> cur, ends |-> ends]

\* TreeSetIter(): empty stack, empty _current_node.  This is end().
End == Iter(<<>>, NULL, TRUE)

\* The while loop of inorder_traverse_to_leftmost_node: push n and the chain
\* of left children below it.
RECURSIVE PushLeft(_, _, _, _)
PushLeft(h, stack, n, seen) ==
  IF n = NULL THEN [stack |-> stack, ends |-> TRUE]
  ELSE IF n \in seen THEN [stack |-> stack, ends |-> FALSE]
  ELSE PushLeft(h, Append(stack, n), h.left[n], seen \cup {n})

\* Mutant of InorderTraverseToLeftmostNode: from_node becomes the current
\* node at once, the chain of left children below it is not entered.
InorderTraverseShallow(h, it, from_node) ==
  IF from_node # NULL THEN Iter(it.stack, from_node, TRUE)
  ELSE IF it.stack # <<>>
       THEN Iter(SubSeq(it.stack, 1, Len(it.stack) - 1), it.stack[Len(it.stack)], TRUE)
       ELSE Iter(it.stack, NULL, TRUE)

\* Mutant of InorderTraverseToLeftmostNode: the top of the stack becomes the
\* current node without being popped.
InorderTraverseKeepsTop(h, it, from_node) ==
  LET p == PushLeft(h, it.stack, from_node, {}) IN
  IF ~p.ends THEN Iter(p.stack, NULL, FALSE)
  ELSE IF p.stack # <<>>
       THEN Iter(p.stack, p.stack[Len(p.stack)], TRUE)
       ELSE Iter(p.stack, NULL, TRUE)

\* inorder_traverse_to_leftmost_node(from_node) on cursor it.
InorderTraverseToLeftmostNode(h, it, from_node) ==
  LET p == PushLeft(h, it.stack, from_node, {}) IN
  IF ~p.ends THEN Iter(p.stack, NULL, FALSE)
  ELSE IF p.stack # <<>>
       THEN Iter(SubSeq(p.stack, 1, Len(p.stack) - 1), p.stack[Len(p.stack)], TRUE)
       ELSE Iter(p.stack, NULL, TRUE)

\* Mutant of IterEq: two cursors that are not exhausted are compared by the
\* values they stand on.
IterEqByValue(x, y) ==
  \/ x.cur = NULL /\ y.cur = NULL
  \/ x.cur # NULL /\ y.cur # NULL /\ value[x.cur] = value[y.cur]

\* TreeSetIter::operator==: the current nodes are the same.
IterEq(x, y) == x.cur = y.cur

\* begin(): TreeSetIter{_root}
Begin(h, rt) == InorderTraverseToLeftmostNode(h, End, rt)

\* Mutant of Inc: a current node without a right child is not left.
IncWithoutPop(h, it) ==
  IF it.cur # NULL /\ h.right[it.cur] # NULL
  THEN InorderTraverseToLeftmostNode(h, it, h.right[it.cur])
  ELSE it

\* operator++
Inc(h, it) ==
  IF it.cur # NULL THEN InorderTraverseToLeftmostNode(h, it, h.right[it.cur]) ELSE it

\* The cursor that begin() on the set with root rt and k advances give.
RECURSIVE CursorAt(_, _, _)
CursorAt(h, rt, k) == IF k = 0 THEN Begin(h, rt) ELSE Inc(h, CursorAt(h, rt, k - 1))

\* Steps a walk is followed for: more than any walk over a structure without
\* a cycle takes.
WalkFuel == 2 * MaxNodes * MaxNodes

\* for (it = begin(); it != end(); it++): the nodes *it is read at, in order.
RECURSIVE WalkNodes(_, _, _)
WalkNodes(h, it, fuel) ==
  IF it.cur = NULL \/ fuel = 0 THEN <<>>
  ELSE <<it.cur>> \o WalkNodes(h, Inc(h, it), fuel - 1)

\* The values a full traversal of the set with root rt yields.
Traverse(h, rt) ==
  LET ns == WalkNodes(h, Begin(h, rt), WalkFuel) IN
  [i \in 1..Len(ns) |-> h.value[ns[i]]]

\* Whether the walk for (it = begin(); it != end(); it++) returns.
RECURSIVE WalkReturns(_, _, _)
WalkReturns(h, x, fuel) ==
  IF ~x.ends \/ fuel = 0 THEN FALSE
  ELSE IF x.cur = NULL THEN TRUE
  ELSE WalkReturns(h, Inc(h, x), fuel - 1)

\* ------------------------------------------------------------ operator==
\* The loop of operator== on the cursors x (this) and y (rhs): "false" at
\* the first pair of values that differ, else whether both cursors have the
\* same current node when one of them is exhausted; "loop" when it never
\* returns.
RECURSIVE EqLoop(_, _, _, _)
EqLoop(h, x, y, fuel) ==
  IF ~x.ends \/ ~y.ends \/ fuel = 0 THEN "loop"
  ELSE IF ~IterEq(x, End) /\ ~IterEq(y, End)
       THEN IF h.value[x.cur] # h.value[y.cur] THEN "false"
            ELSE EqLoop(h, Inc(h, x), Inc(h, y), fuel - 1)
       ELSE IF IterEq(x, y) THEN "true" ELSE "false"

\* Mutant of EqCall: the two walks are compared by their lengths alone.
EqCallByCount(h, rt, rhs_rt) ==
  IF Len(Traverse(h, rt)) = Len(Traverse(h, rhs_rt)) THEN "true" ELSE "false"

\* *this == rhs for the sets with roots rt and rhs_rt.
EqCall(h, rt, rhs_rt) == EqLoop(h, Begin(h, rt), Begin(h, rhs_rt), WalkFuel)

\* *this != rhs: !(*this == rhs).
NeCall(h, rt, rhs_rt) ==
  LET r == EqCall(h, rt, rhs_rt) IN
  IF r = "true" THEN "false" ELSE IF r = "false" THEN "true" ELSE r

\* ------------------------------------------------- plus, intersect, minus
\* TreeSet<T, Compare> new_set;
NewSet(h) ==
  [h |-> h, root |-> NULL, size |-> 0, ret |-> FALSE, oom |-> FALSE,
   status |-> "running"]

\* Mutant of TmpFree: the allocator hands out identities that the operands
\* still use.
TmpFreeAliased(h, rt) == AllNodes \ Reach(h, rt)

\* Node identities the allocator can hand out to the set with root rt that
\* a call is building.
TmpFree(h, rt) == TmpNodes \ Reach(h, rt)

\* new_set.add(v) for each v of vals in turn, until an assert fails.
RECURSIVE AddAll(_, _)
AddAll(c, vals) ==
  IF vals = <<>> \/ c.status # "running" \/ c.oom THEN c
  ELSE AddAll(AddCall(c.h, c.root, c.size, Head(vals), TmpFree(c.h, c.root)),
              Tail(vals))

\* The outcome of a call whose walk over an operand never returns.
Diverged(h) == [NewSet(h) EXCEPT !.status = "diverged"]

\* plus(s): every element of this, then every element of s.
PlusCall(h, rt, s_rt) ==
  IF ~WalkReturns(h, Begin(h, rt), WalkFuel) THEN Diverged(h)
  ELSE LET c == AddAll(NewSet(h), Traverse(h, rt)) IN
       IF c.status # "running" \/ c.oom THEN c
       ELSE IF ~WalkReturns(h, Begin(h, s_rt), WalkFuel) THEN Diverged(h)
       ELSE AddAll(c, Traverse(h, s_rt))

\* The inner loop of intersect for the element x of this: x once for every
\* element of s with x == *s_it.
RECURSIVE Matches(_, _)
Matches(x, ys) ==
  IF ys = <<>> THEN <<>>
  ELSE (IF x = Head(ys) THEN <<x>> ELSE <<>>) \o Matches(x, Tail(ys))

\* The values intersect passes to new_set.add, in order.
RECURSIVE IntersectAdds(_, _)
IntersectAdds(xs, ys) ==
  IF xs = <<>> THEN <<>>
  ELSE Matches(Head(xs), ys) \o IntersectAdds(Tail(xs), ys)

\* intersect(s)
IntersectCall(h, rt, s_rt) ==
  IF ~WalkReturns(h, Begin(h, rt), WalkFuel)
     \/ (rt # NULL /\ ~WalkReturns(h, Begin(h, s_rt), WalkFuel))
  THEN Diverged(h)
  ELSE AddAll(NewSet(h), IntersectAdds(Traverse(h, rt), Traverse(h, s_rt)))

\* The values minus passes to new_set.add: those with !s.contains(x).
RECURSIVE MinusAdds(_, _, _, _)
MinusAdds(h, xs, s_rt, s_size) ==
  IF xs = <<>> THEN <<>>
  ELSE (IF ContainsCall(h, s_rt, s_size, Head(xs)) = "true" THEN <<>>
        ELSE <<Head(xs)>>) \o MinusAdds(h, Tail(xs), s_rt, s_size)

\* minus(s)
MinusCall(h, rt, s_rt, s_size) ==
  LET xs == Traverse(h, rt) IN
  IF ~WalkReturns(h, Begin(h, rt), WalkFuel)
     \/ (\E i \in 1..Len(xs) : ContainsCall(h, s_rt, s_size, xs[i]) = "loop")
  THEN Diverged(h)
  ELSE AddAll(NewSet(h), MinusAdds(h, xs, s_rt, s_size))

\* ------------------------------------------------------------ operator<<
\* os << v for a value of T: its decimal text.
Digits == <<"0", "1", "2", "3", "4", "5", "6", "7", "8", "9">>
Str(v) == Digits[v + 1]

\* Mutant of RenderLoop: "," is written after every value.
RECURSIVE RenderLoopTrailingComma(_)
RenderLoopTrailingComma(s) ==
  IF s = <<>> THEN <<>>
  ELSE <<Str(Head(s)), ",">> \o RenderLoopTrailingComma(Tail(s))

\* The loop of operator<<: each value, and "," when the cursor is not at
\* end() after it.
RECURSIVE RenderLoop(_)
RenderLoop(s) ==
  IF s = <<>> THEN <<>>
  ELSE <<Str(Head(s))>> \o (IF Tail(s) # <<>> THEN <<",">> ELSE <<>>)
         \o RenderLoop(Tail(s))

\* os << s: the pieces written to the stream, in order.
Render(h, rt) == <<"[">> \o RenderLoop(Traverse(h, rt)) \o <<"]">>

\* ---------------------------------------------------- values of cursor and out
\* No cursor exists.  A cursor is the set it walks, the number of advances
\* made since begin(), and the TreeSetIter itself.
NoIter == [set |-> "none", steps |-> 0, pos |-> End]

\* The heap h with the nodes of the returned set o next to it.
Ext(h, o) ==
  [value |-> [n \in AllNodes |-> IF n \in Nodes THEN h.value[n] ELSE o.value[n]],
   left  |-> [n \in AllNodes |-> IF n \in Nodes THEN h.left[n] ELSE o.left[n]],
   right |-> [n \in AllNodes |-> IF n \in Nodes THEN h.right[n] ELSE o.right[n]]]

\* The last call returned neither a set nor a text.
NoOut ==
  [value |-> [n \in TmpNodes |-> MinT], left |-> [n \in TmpNodes |-> NULL],
   right |-> [n \in TmpNodes |-> NULL], root |-> NULL, size |-> 0, text |-> <<>>]

\* The set a call built in c and returns by value.
OutOf(c) ==
  [value |-> [n \in TmpNodes |-> c.h.value[n]],
   left  |-> [n \in TmpNodes |-> c.h.left[n]],
   right |-> [n \in TmpNodes |-> c.h.right[n]],
   root |-> c.root, size |-> c.size, text |-> <<>>]

\* ------------------------------------------------------------ the actions
\* The record of a call: the operation, the receiver, the value or the other
\* set it was given, what it returned, and for a del that removed a node how
\* many children the node had and whether it was the root.
Call(op, t, v, o, r) ==
  [op |-> op, set |-> t, val |-> v, other |-> o, ret |-> r, kids |-> 0, atroot |-> FALSE,
   list |-> <<>>]

\* The call moved one set object into another.
IsMove(call) == call.op \in {"move_ctor", "move_assign"} /\ call.set # call.other

\* Number of children of node n.
Kids(h, n) == (IF h.left[n] = NULL THEN 0 ELSE 1) + (IF h.right[n] = NULL THEN 0 ELSE 1)

\* The state a call on set t leaves: its outcome c, the set objects lv that
\* are constructed after it, unreferenced nodes released.
CommitLive(t, c, call, lv) ==
  \E h \in {Release(c.h, [root EXCEPT ![t] = c.root], lv)} :
     /\ value' = h.value
     /\ left' = h.left
     /\ right' = h.right
     /\ root' = h.root
     /\ size' = [size EXCEPT ![t] = c.size]
     /\ live' = lv
     /\ status' = c.status
     /\ last' = call
     /\ since < MaxSince
     /\ since' = IF since = 0 /\ ~IsMove(call) THEN 0 ELSE since + 1
     /\ cursor' = NoIter
     /\ out' = NoOut
     /\ UNCHANGED <<cmp, debug>>

Commit(t, c, call) == CommitLive(t, c, call, live)

\* t.add(v)
Add(t, v) ==
  /\ status = "running"
  /\ live[t]
  /\ \E c \in {AddCall(Heap, root[t], size[t], v, Free)} :
       /\ ~c.oom
       /\ c.size <= MaxSize
       /\ Commit(t, c, Call("add", t, v, t, c.ret /\ c.status = "running"))

\* t.del(v)
Del(t, v) ==
  /\ status = "running"
  /\ live[t]
  /\ \E c \in {DelCall(Heap, root[t], size[t], v)},
        w \in {DelWalk(Heap, root[t], NULL, v, {})} :
     LET call == Call("del", t, v, t, c.ret)
     IN Commit(t, c, IF c.ret
                     THEN [call EXCEPT !.kids = Kids(Heap, w.node),
                                       !.atroot = (w.parent = NULL)]
                     ELSE call)

\* TreeSet t;
Construct(t) ==
  /\ status = "running"
  /\ ~live[t]
  /\ CommitLive(t, [h |-> Heap, root |-> NULL, size |-> 0, status |-> "running"],
                Call("construct", t, MinT, t, FALSE), [live EXCEPT ![t] = TRUE])

\* The loop of the initializer-list constructor: add(item) for each item of
\* vals in turn, on the set under construction c, until an assert fails.
RECURSIVE ListAdds(_, _, _)
ListAdds(c, vals, pool) ==
  IF vals = <<>> \/ c.status # "running" \/ c.oom THEN c
  ELSE ListAdds(AddCall(c.h, c.root, c.size, Head(vals), pool \ Reach(c.h, c.root)),
                Tail(vals), pool)

\* TreeSet(const std::initializer_list<T> &list): _root(nullptr), _size(0),
\* then the loop.
ListCall(h, free, list) == ListAdds(NewSet(h), list, free)

\* The lists of up to MaxList values.
Lists == UNION {[1..n -> Vals] : n \in 0..MaxList}

\* TreeSet t{list};
ListConstruct(t, list) ==
  /\ status = "running"
  /\ ~live[t]
  /\ \E c \in {ListCall(Heap, Free, list)} :
       /\ ~c.oom
       /\ CommitLive(t, c, [Call("init_list", t, MinT, t, FALSE) EXCEPT !.list = list],
                     [live EXCEPT ![t] = TRUE])

\* TreeSet t{o};
CopyConstruct(t, o) ==
  /\ status = "running"
  /\ ~live[t] /\ live[o]
  /\ \E junk \in (IF size[o] > 0 /\ root[o] = NULL THEN Vals ELSE {MinT}) :
       \E c \in {CopyCall(Heap, Free, root[o], size[o], junk)} :
         /\ ~c.oom
         /\ CommitLive(t, c, Call("copy_ctor", t, MinT, o, FALSE),
                       [live EXCEPT ![t] = TRUE])

\* t = o;
CopyAssign(t, o) ==
  /\ status = "running"
  /\ live[t] /\ live[o]
  /\ IF t = o
     THEN Commit(t, [h |-> Heap, root |-> root[t], size |-> size[t],
                     status |-> "running"],
                 Call("copy_assign", t, MinT, o, FALSE))
     ELSE \E junk \in (IF size[o] > 0 /\ root[o] = NULL THEN Vals ELSE {MinT}) :
            \E c \in {CopyCall(Heap, Free, root[o], size[o], junk)} :
              /\ ~c.oom
              /\ Commit(t, c, Call("copy_assign", t, MinT, o, FALSE))

\* TreeSet t{std::move(o)};
MoveConstruct(t, o) ==
  /\ status = "running"
  /\ ~live[t] /\ live[o]
  /\ CommitLive(t, MoveCtorCall(Heap, root[o], size[o]),
                Call("move_ctor", t, MinT, o, FALSE), [live EXCEPT ![t] = TRUE])

\* t = std::move(o);
MoveAssign(t, o) ==
  /\ status = "running"
  /\ live[t] /\ live[o]
  /\ IF t = o
     THEN Commit(t, [h |-> Heap, root |-> root[t], size |-> size[t],
                     status |-> "running"],
                 Call("move_assign", t, MinT, o, FALSE))
     ELSE Commit(t, MoveAssignCall(Heap, root[o], size[o]),
                 Call("move_assign", t, MinT, o, FALSE))

\* The state a call that is not a mutator leaves: the part h of the heap
\* the two set objects live in, the status st, the cursor c the client holds
\* and the value o returned.  No such call assigns _root or _size.
Returned(call, h, st, c, o) ==
  /\ value' = [n \in Nodes |-> h.value[n]]
  /\ left' = [n \in Nodes |-> h.left[n]]
  /\ right' = [n \in Nodes |-> h.right[n]]
  /\ status' = st
  /\ last' = call
  /\ cursor' = c
  /\ out' = o
  /\ UNCHANGED <<cmp, debug, live, root, size, since>>

\* t.contains(v)
CallContains(t, v) ==
  /\ status = "running"
  /\ live[t]
  /\ \E r \in {ContainsCall(Heap, root[t], size[t], v)} :
       Returned(Call("contains", t, v, t, r = "true"), Heap,
                IF r = "loop" THEN "diverged" ELSE "running", NoIter, NoOut)

\* t == o
Equals(t, o) ==
  /\ status = "running"
  /\ live[t] /\ live[o]
  /\ \E r \in {EqCall(Heap, root[t], root[o])} :
       Returned(Call("eq", t, MinT, o, r = "true"), Heap,
                IF r = "loop" THEN "diverged" ELSE "running", NoIter, NoOut)

\* t != o
NotEquals(t, o) ==
  /\ status = "running"
  /\ live[t] /\ live[o]
  /\ \E r \in {NeCall(Heap, root[t], root[o])} :
       Returned(Call("ne", t, MinT, o, r = "true"), Heap,
                IF r = "loop" THEN "diverged" ELSE "running", NoIter, NoOut)

\* t.plus(o)
Plus(t, o) ==
  /\ status = "running"
  /\ live[t] /\ live[o]
  /\ \E c \in {PlusCall(Ext(Heap, NoOut), root[t], root[o])} :
       /\ ~c.oom
       /\ Returned(Call("plus", t, MinT, o, FALSE), c.h, c.status, NoIter, OutOf(c))

\* t.intersect(o)
Intersect(t, o) ==
  /\ status = "running"
  /\ live[t] /\ live[o]
  /\ \E c \in {IntersectCall(Ext(Heap, NoOut), root[t], root[o])} :
       /\ ~c.oom
       /\ Returned(Call("intersect", t, MinT, o, FALSE), c.h, c.status, NoIter,
                   OutOf(c))

\* t.minus(o)
Minus(t, o) ==
  /\ status = "running"
  /\ live[t] /\ live[o]
  /\ \E c \in {MinusCall(Ext(Heap, NoOut), root[t], root[o], size[o])} :
       /\ ~c.oom
       /\ Returned(Call("minus", t, MinT, o, FALSE), c.h, c.status, NoIter, OutOf(c))

\* os << t
Output(t) ==
  /\ status = "running"
  /\ live[t]
  /\ IF WalkReturns(Heap, Begin(Heap, root[t]), WalkFuel)
     THEN Returned(Call("render", t, MinT, t, FALSE), Heap, "running", NoIter,
                   [NoOut EXCEPT !.text = Render(Heap, root[t])])
     ELSE Returned(Call("render", t, MinT, t, FALSE), Heap, "diverged", NoIter, NoOut)

\* auto it = t.begin();  The call record says whether it == t.end().
BeginCursor(t) ==
  /\ status = "running"
  /\ live[t]
  /\ \E x \in {Begin(Heap, root[t])} :
       Returned(Call("begin", t, MinT, t, IterEq(x, End)), Heap,
                IF x.ends THEN "running" ELSE "diverged",
                [set |-> t, steps |-> 0, pos |-> x], NoOut)

\* ++it on the cursor the client holds.  The call record says whether
\* it == end() after it.
Advance ==
  /\ status = "running"
  /\ cursor.set # "none"
  /\ cursor.steps < MaxSteps
  /\ \E x \in {Inc(Heap, cursor.pos)} :
       Returned(Call("advance", cursor.set, MinT, cursor.set, IterEq(x, End)), Heap,
                IF x.ends THEN "running" ELSE "diverged",
                [set |-> cursor.set, steps |-> cursor.steps + 1, pos |-> x], NoOut)

\* ++it on the cursor the client holds, then it == y for the cursor y that
\* o.begin() and k advances give.  The call record holds k and the result.
CompareCursors(o, k) ==
  /\ status = "running"
  /\ cursor.set # "none" /\ live[o]
  /\ \E x \in {cursor.pos}, y \in {CursorAt(Heap, root[o], k)} :
       Returned(Call("iter_eq", cursor.set, k, o, IterEq(x, y)), Heap,
                IF y.ends THEN "running" ELSE "diverged", cursor, NoOut)

\* sanity_check(_root, minval, maxval) on set t.  The call record holds the
\* two bounds and whether it returned true.
CallSanityCheck(t, minval, maxval) ==
  /\ status = "running"
  /\ live[t]
  /\ \E r \in {SanityCheck(Heap, root[t], minval, maxval, {})} :
       Returned([Call("sanity_check", t, minval, t, r = "true")
                   EXCEPT !.list = <<minval, maxval>>], Heap,
                IF r = "overflow" THEN "diverged" ELSE "running", NoIter, NoOut)

\* ------------------------------------------------ check_add_del_ordering
\* add_values: ctx.CHECK(s.add(n)) for each n of values in turn; ok says
\* whether every CHECK passed.
RECURSIVE AddValuesLoop(_, _, _, _)
AddValuesLoop(c, ok, values, pool) ==
  IF values = <<>> \/ c.status # "running" \/ c.oom THEN [c |-> c, ok |-> ok]
  ELSE LET d == AddCall(c.h, c.root, c.size, Head(values), pool \ Reach(c.h, c.root))
       IN AddValuesLoop(d, ok /\ d.ret /\ d.status = "running", Tail(values), pool)

\* del_values: ctx.CHECK(s.del(n)) for each n of values in turn.
RECURSIVE DelValuesLoop(_, _, _)
DelValuesLoop(c, ok, values) ==
  IF values = <<>> \/ c.status # "running" THEN [c |-> c, ok |-> ok]
  ELSE LET d == DelCall(c.h, c.root, c.size, Head(values))
       IN DelValuesLoop(d, ok /\ d.ret /\ d.status = "running", Tail(values))

\* The set t as the calls of a helper find it.
AsFound(t) ==
  [h |-> Heap, root |-> root[t], size |-> size[t], ret |-> FALSE, oom |-> FALSE,
   status |-> "running"]

\* The orders the test passes: up to MaxList values, none twice.
Orders == {l \in Lists : \A i, j \in 1..Len(l) : i # j => l[i] # l[j]}

\* The orderings of the values of l.
OrderingsOf(l) ==
  {m \in Orders : Len(m) = Len(l) /\ {m[i] : i \in 1..Len(m)} = {l[i] : i \in 1..Len(l)}}

\* check_add_del_ordering, first statement: add_values(ctx, s, add_order) on
\* the set the caller has just constructed.
AddValues(t, add_order) ==
  /\ status = "running"
  /\ live[t]
  /\ last.op = "init"
  /\ \E r \in {AddValuesLoop(AsFound(t), TRUE, add_order, Free \cup Reach(Heap, root[t]))} :
       /\ ~r.c.oom
       /\ Commit(t, r.c, [Call("add_values", t, MinT, t, r.ok) EXCEPT !.list = add_order])

\* The first loop over expected_values: s.contains(value) for one of the
\* values; the call record holds what contains returned.
CheckPresent(t, v) ==
  /\ status = "running"
  /\ last.op \in {"add_values", "check_present"} /\ last.set = t
  /\ \E i \in 1..Len(last.list) : last.list[i] = v
  /\ \E r \in {ContainsCall(Heap, root[t], size[t], v)} :
       Returned([Call("check_present", t, v, t, r = "true") EXCEPT !.list = last.list],
                Heap, IF r = "loop" THEN "diverged" ELSE "running", NoIter, NoOut)

\* del_values(ctx, s, del_order), del_order an ordering of the same values.
DelValues(t, del_order) ==
  /\ status = "running"
  /\ last.op \in {"add_values", "check_present"} /\ last.set = t
  /\ del_order \in OrderingsOf(last.list)
  /\ \E r \in {DelValuesLoop(AsFound(t), TRUE, del_order)} :
       Commit(t, r.c, [Call("del_values", t, MinT, t, r.ok) EXCEPT !.list = last.list])

\* The second loop over expected_values.
CheckAbsent(t, v) ==
  /\ status = "running"
  /\ last.op \in {"del_values", "check_absent"} /\ last.set = t
  /\ \E i \in 1..Len(last.list) : last.list[i] = v
  /\ \E r \in {ContainsCall(Heap, root[t], size[t], v)} :
       Returned([Call("check_absent", t, v, t, r = "true") EXCEPT !.list = last.list],
                Heap, IF r = "loop" THEN "diverged" ELSE "running", NoIter, NoOut)

\* ------------------------------------------------------------------ Init
\* TreeSet a; : _root(nullptr), _size(0).  b is not constructed yet.
Init ==
  /\ cmp \in Comparators
  /\ debug \in BOOLEAN
  /\ value = [n \in Nodes |-> MinT]
  /\ left = [n \in Nodes |-> NULL]
  /\ right = [n \in Nodes |-> NULL]
  /\ live = [t \in Sets |-> t = "a"]
  /\ root = [t \in Sets |-> NULL]
  /\ size = [t \in Sets |-> 0]
  /\ status = "running"
  /\ since = 0
  /\ last = Call("init", "a", MinT, "a", FALSE)
  /\ cursor = NoIter
  /\ out = NoOut

\* Any tree of up to MaxNodes nodes with any values, ordered or not: the
\* trees sanity_check exists to tell apart.  The nodes are numbered in
\* preorder, so the left child of n is n + 1 and the right child lies after
\* n, and every node but the root 1 is the child of exactly one node.
InitAnyTree ==
  /\ cmp \in Comparators
  /\ debug = TRUE
  /\ left \in {f \in [Nodes -> Nodes \cup {NULL}] : \A n \in Nodes : f[n] \in {NULL, n + 1}}
  /\ right \in {f \in [Nodes -> Nodes \cup {NULL}] : \A n \in Nodes : f[n] = NULL \/ f[n] > n}
  /\ root \in {[t \in Sets |-> IF t = "a" THEN r ELSE NULL] : r \in {NULL, 1}}
  /\ LET h == [value |-> [n \in Nodes |-> MinT], left |-> left, right |-> right]
         ord == Preorder(h, <<root["a"]>>, <<>>)
     IN /\ \A i \in 1..Len(ord) : ord[i] = i
        /\ \A n \in Nodes :
             IF n \in 2..Len(ord)
             THEN Cardinality({m \in Nodes : left[m] = n})
                    + Cardinality({m \in Nodes : right[m] = n}) = 1
             ELSE /\ \A m \in Nodes : left[m] # n /\ right[m] # n
                  /\ n > Len(ord) => (left[n] = NULL /\ right[n] = NULL)
        /\ size = [t \in Sets |-> IF t = "a" THEN Len(ord) ELSE 0]
        /\ value \in {f \in [Nodes -> Vals] : \A n \in Nodes : n > Len(ord) => f[n] = MinT}
  /\ live = [t \in Sets |-> t = "a"]
  /\ status = "running"
  /\ since = 0
  /\ last = Call("init", "a", MinT, "a", FALSE)
  /\ cursor = NoIter
  /\ out = NoOut

\* sanity_check called once on such a tree, with any two bounds.
NextSanity ==
  \E minval, maxval \in Vals : last.op = "init" /\ CallSanityCheck("a", minval, maxval)

SpecSanity == InitAnyTree /\ [][NextSanity]_vars

\* One run of check_add_del_ordering on a set just constructed.
NextOrdering ==
  \/ \E add_order \in Orders : AddValues("a", add_order)
  \/ \E v \in Vals : CheckPresent("a", v)
  \/ \E del_order \in Orders : DelValues("a", del_order)
  \/ \E v \in Vals : CheckAbsent("a", v)

SpecOrdering == Init /\ [][NextOrdering]_vars

\* One set, built from empty by add and del calls alone.
NextAddDel ==
  \/ \E v \in Vals : Add("a", v)
  \/ \E v \in Vals : Del("a", v)

SpecAddDel == Init /\ [][NextAddDel]_vars

\* Two sets: b is made as a copy of a; add and del on either, and copy
\* assignment between them.
NextCopy ==
  \/ \E t \in Sets, v \in Vals : Add(t, v)
  \/ \E t \in Sets, v \in Vals : Del(t, v)
  \/ \E t, o \in Sets : CopyConstruct(t, o)
  \/ \E t, o \in Sets : CopyAssign(t, o)

SpecCopy == Init /\ [][NextCopy]_vars

\* Two sets: b is default constructed or move constructed from a; add and
\* del on either, and move assignment between them.
NextMove ==
  \/ \E t \in Sets, v \in Vals : Add(t, v)
  \/ \E t \in Sets, v \in Vals : Del(t, v)
  \/ \E t \in Sets : Construct(t)
  \/ \E t, o \in Sets : MoveConstruct(t, o)
  \/ \E t, o \in Sets : MoveAssign(t, o)

SpecMove == Init /\ [][NextMove]_vars

\* One set built by add and del calls, walked with a cursor between them.
NextIter ==
  \/ \E v \in Vals : Add("a", v)
  \/ \E v \in Vals : Del("a", v)
  \/ BeginCursor("a")
  \/ Advance

SpecIter == Init /\ [][NextIter]_vars

\* b is constructed from a list, then changed by add and del calls.
NextList ==
  \/ \E list \in Lists : ListConstruct("b", list)
  \/ \E v \in Vals : Add("b", v)
  \/ \E v \in Vals : Del("b", v)

SpecList == Init /\ [][NextList]_vars

\* The calls that only read their operands.
Queries ==
  {"contains", "eq", "ne", "plus", "intersect", "minus", "render", "begin",
   "advance", "iter_eq"}

\* Two sets, b made as a copy of a or empty, built by add and del calls,
\* then walked: a behaviour ends with one walk of a cursor, during which the
\* cursor is compared with cursors of either set.
NextCursor ==
  \/ \E t \in Sets, v \in Vals : last.op \notin Queries /\ Add(t, v)
  \/ \E t \in Sets, v \in Vals : last.op \notin Queries /\ Del(t, v)
  \/ \E t \in Sets : last.op \notin Queries /\ Construct(t)
  \/ \E t, o \in Sets : last.op \notin Queries /\ CopyConstruct(t, o)
  \/ \E t \in Sets : last.op \notin Queries /\ BeginCursor(t)
  \/ last.op # "iter_eq" /\ Advance
  \/ \E o \in Sets, k \in 0..MaxNodes : last.op # "iter_eq" /\ CompareCursors(o, k)

SpecCursor == Init /\ [][NextCursor]_vars

\* One set built by add and del calls, written to a stream between them.
NextRender ==
  \/ \E v \in Vals : Add("a", v)
  \/ \E v \in Vals : Del("a", v)
  \/ Output("a")

SpecRender == Init /\ [][NextRender]_vars

\* Two sets built by add and del calls, then read: a behaviour ends with one
\* call that only reads them, or with one walk of a cursor.
NextAlgebra ==
  \/ \E t \in Sets, v \in Vals : last.op \notin Queries /\ Add(t, v)
  \/ \E t \in Sets, v \in Vals : last.op \notin Queries /\ Del(t, v)
  \/ \E t \in Sets : last.op \notin Queries /\ Construct(t)
  \/ \E t \in Sets, v \in Vals : last.op \notin Queries /\ CallContains(t, v)
  \/ \E t, o \in Sets : last.op \notin Queries /\ Equals(t, o)
  \/ \E t, o \in Sets : last.op \notin Queries /\ NotEquals(t, o)
  \/ \E t, o \in Sets : last.op \notin Queries /\ Plus(t, o)
  \/ \E t, o \in Sets : last.op \notin Queries /\ Intersect(t, o)
  \/ \E t, o \in Sets : last.op \notin Queries /\ Minus(t, o)
  \/ \E t \in Sets : last.op \notin Queries /\ Output(t)
  \/ \E t \in Sets : last.op \notin Queries /\ BeginCursor(t)
  \/ Advance

SpecAlgebra == Init /\ [][NextAlgebra]_vars

\* ======================================================================
\* Observations of a state, used by the properties below.

\* The in-order sequence of set t.
InOrder(t) == Traverse(Heap, root[t])

\* The values stored in the nodes set t reaches.
Elems(t) == {value[n] : n \in Reach(Heap, root[t])}

\* t.contains(v) returns true.
Contains(t, v) == ContainsCall(Heap, root[t], size[t], v) = "true"

\* The set holds an element comparator-equivalent to v.
HoldsEquiv(t, v) == \E e \in Elems(t) : Equiv(v, e)

\* Sequence s with every occurrence of v taken out.
RECURSIVE Without(_, _)
Without(s, v) ==
  IF s = <<>> THEN <<>>
  ELSE IF s[1] = v THEN Without(Tail(s), v)
  ELSE <<s[1]>> \o Without(Tail(s), v)

\* Strictly increasing under the comparator.
Increasing(s) == \A i \in 1..(Len(s) - 1) : Cmp(s[i], s[i + 1])

\* The heap, root and size of every set are what they were.
TreeUnchanged == UNCHANGED <<value, left, right, root, size>>

\* The same observations of the state a step leads to.
HeapAfter == [value |-> value', left |-> left', right |-> right']
InOrderAfter(t) == Traverse(HeapAfter, root'[t])
ElemsAfter(t) == {value'[n] : n \in Reach(HeapAfter, root'[t])}
ContainsAfter(t, v) == ContainsCall(HeapAfter, root'[t], size'[t], v) = "true"

\* The step is the call t.op(v).
Called(op, t, v) == last'.op = op /\ last'.set = t /\ last'.val = v

\* ======================================================================
\* C1: after every add/del on a set built from empty, a full traversal
\* yields values strictly increasing under the set's comparator, none twice.
C1_TraversalStrictlyIncreasing ==
  LET s == InOrder("a") IN
    /\ Increasing(s)
    /\ \A i, j \in 1..Len(s) : i # j => s[i] # s[j]

\* Lemma for C1: the traversal is strictly increasing whenever equivalence
\* under the comparator is equality (std::less, std::greater).
L1_TraversalIncreasingTotalOrder ==
  cmp # "coarse" => C1_TraversalStrictlyIncreasing

\* C2: size() equals the number of nodes reachable from the root, which
\* equals the number of elements a traversal from begin() to end() yields.
C2_SizeIsNodeCount ==
  /\ size["a"] = Cardinality(Reach(Heap, root["a"]))
  /\ size["a"] = Len(InOrder("a"))

\* C2 witness: a set of three elements left by a successful del.
C2_Witness ==
  /\ last.op = "del" /\ last.ret
  /\ size["a"] = 3 /\ Len(InOrder("a")) = 3

\* C3: add(v) of a value equivalent to no current element returns true,
\* then contains(v), size() grew by one, and what was contained still is.
C3_AddNewValue ==
  [][\A t \in Sets, v \in Vals :
       (Called("add", t, v) /\ ~HoldsEquiv(t, v)) =>
         /\ status' = "running"
         /\ last'.ret
         /\ ContainsAfter(t, v)
         /\ size'[t] = size[t] + 1
         /\ \A u \in Vals : Contains(t, u) => ContainsAfter(t, u)
    ]_vars

\* Lemma for C3: the same, for the calls on which no assert fires.
L3_AddNewValueNoAbort ==
  [][\A t \in Sets, v \in Vals :
       (Called("add", t, v) /\ ~HoldsEquiv(t, v) /\ status' = "running") =>
         /\ last'.ret
         /\ ContainsAfter(t, v)
         /\ size'[t] = size[t] + 1
         /\ \A u \in Vals : Contains(t, u) => ContainsAfter(t, u)
    ]_vars

\* C4: add(v) on a set holding an element comparator-equivalent to v returns
\* false, inserts no node and leaves size() and the tree unchanged.
C4_AddEquivalentRejected ==
  [][\A t \in Sets, v \in Vals :
       (Called("add", t, v) /\ HoldsEquiv(t, v)) =>
         /\ ~last'.ret
         /\ TreeUnchanged
    ]_vars

\* Lemma for C4: add(v) of a value the set holds (operator==) is rejected.
L4_AddEqualRejected ==
  [][\A t \in Sets, v \in Vals :
       (Called("add", t, v) /\ v \in Elems(t)) =>
         /\ ~last'.ret
         /\ TreeUnchanged
    ]_vars

\* C5: del(v) returns true iff contains(v) was true before; after a true
\* return contains(v) is false, size() is one less, and a repeated del(v)
\* returns false.
C5_DelIffContained ==
  [][\A t \in Sets, v \in Vals :
       Called("del", t, v) =>
         /\ status' = "running"
         /\ last'.ret <=> Contains(t, v)
         /\ last'.ret =>
              /\ ~ContainsAfter(t, v)
              /\ size'[t] = size[t] - 1
              /\ LET again == DelCall(HeapAfter, root'[t], size'[t], v) IN
                   again.status = "running" /\ ~again.ret
    ]_vars

\* Lemma for C5: the same, for the calls on which no assert fires.
L5_DelIffContainedNoAbort ==
  [][\A t \in Sets, v \in Vals :
       (Called("del", t, v) /\ status' = "running") =>
         /\ last'.ret <=> Contains(t, v)
         /\ last'.ret =>
              /\ ~ContainsAfter(t, v)
              /\ size'[t] = size[t] - 1
              /\ LET again == DelCall(HeapAfter, root'[t], size'[t], v) IN
                   again.status = "running" => ~again.ret
    ]_vars

\* C6: a successful del(v) removes v and nothing else: the in-order sequence
\* after the call is the one before with v taken out.
C6_DelRemovesOnlyV ==
  [][\A t \in Sets, v \in Vals :
       (Called("del", t, v) /\ last'.ret) =>
         /\ v \in Elems(t)
         /\ InOrderAfter(t) = Without(InOrder(t), v)
         /\ Len(InOrderAfter(t)) = Len(InOrder(t)) - 1
    ]_vars

\* C6 witness: del removed a node with two children that was not the root,
\* and two elements remain.
C6_Witness ==
  /\ last.op = "del" /\ last.ret
  /\ last.kids = 2 /\ ~last.atroot
  /\ Len(InOrder(last.set)) >= 2

\* C7: del(v) on a set holding no element equivalent to v returns false and
\* changes nothing.
C7_DelAbsentNoChange ==
  [][\A t \in Sets, v \in Vals :
       (Called("del", t, v) /\ ~HoldsEquiv(t, v)) =>
         /\ status' = "running"
         /\ ~last'.ret
         /\ TreeUnchanged
    ]_vars

\* Lemma for C7: the same, for the calls on which no assert fires.
L7_DelAbsentNoChangeNoAbort ==
  [][\A t \in Sets, v \in Vals :
       (Called("del", t, v) /\ ~HoldsEquiv(t, v) /\ status' = "running") =>
         /\ ~last'.ret
         /\ TreeUnchanged
    ]_vars

\* The step is a move of set o into another set t, by constructor or
\* assignment.
Moved(t, o) ==
  /\ last'.op \in {"move_ctor", "move_assign"}
  /\ last'.set = t /\ last'.other = o /\ t # o

\* The step is an add or a del on set t.
Mutated(t) == last'.op \in {"add", "del"} /\ last'.set = t

\* The step leaves the in-order sequence and size() of set u as they were.
SetUnchanged(u) == InOrderAfter(u) = InOrder(u) /\ size'[u] = size[u]

\* The live sets reach no node in common.
NoSharedNodes ==
  \A t, u \in Sets :
    (t # u /\ live[t] /\ live[u]) =>
      Reach(Heap, root[t]) \cap Reach(Heap, root[u]) = {}

\* C8: after a move from S into D, D holds exactly the elements S held
\* before and S is empty: S.size() == 0 and S.begin() == S.end().
C8_MoveEmptiesSource ==
  [][\A t, o \in Sets :
       Moved(t, o) =>
         /\ InOrderAfter(t) = InOrder(o)
         /\ size'[o] = 0
         /\ IterEq(Begin(HeapAfter, root'[o]), End)
    ]_vars

\* Lemma for C8: the first move gives D the elements and the size S had, and
\* leaves S's root and size as they were.
L8_MoveCopiesRootAndSize ==
  [][\A t, o \in Sets :
       (Moved(t, o) /\ since = 0) =>
         /\ InOrderAfter(t) = InOrder(o)
         /\ size'[t] = size[o]
         /\ SetUnchanged(o)
         /\ root'[t] = root'[o]
    ]_vars

\* C9: once b is a copy of a, add and del calls on one of the two leave the
\* in-order sequence and size() of the other unchanged.
C9_CopyIndependent ==
  [][\A t \in Sets :
       Mutated(t) => \A u \in Sets \ {t} : live[u] => SetUnchanged(u)
    ]_vars

\* C9 witness: after the copy a successful add or del made the two sets
\* differ, while the other one still has elements.
C9_Witness ==
  /\ live["a"] /\ live["b"]
  /\ last.op \in {"add", "del"} /\ last.ret
  /\ InOrder("a") # InOrder("b")
  /\ \A t \in Sets : t # last.set => Len(InOrder(t)) >= 2

\* C10: no two sets ever share node storage, also after a move: add and del
\* on one leave the other's in-order sequence and size() unchanged, and each
\* set's size() is the number of elements its traversal yields.
C10_NoSharingAfterMove ==
  [][/\ NoSharedNodes'
     /\ \A t \in Sets :
          Mutated(t) => \A u \in Sets \ {t} : live[u] => SetUnchanged(u)
     /\ \A t \in Sets : live'[t] => size'[t] = Len(InOrderAfter(t))
    ]_vars

\* ======================================================================
\* The step is the call t.op(o) on two sets.
Did(op, t, o) == last'.op = op /\ last'.set = t /\ last'.other = o

\* Sequence p is a proper prefix of sequence q.
ProperPrefix(p, q) == Len(p) < Len(q) /\ SubSeq(q, 1, Len(p)) = p

\* C11: A == B returns true iff the in-order sequences of A and B have the
\* same length and are element-wise equal (so it returns false when one is
\* a proper prefix of the other or exactly one set is empty), B == A gives
\* the same result, and A != B returns the negation.
C11_EqualsIffSameTraversal ==
  [][\A t, o \in Sets :
       /\ Did("eq", t, o) =>
            /\ status' = "running"
            /\ last'.ret = (InOrder(t) = InOrder(o))
            /\ last'.ret = (EqCall(Heap, root[o], root[t]) = "true")
       /\ Did("ne", t, o) =>
            /\ status' = "running"
            /\ last'.ret = ~(EqCall(Heap, root[t], root[o]) = "true")]_vars

\* a == b was asked with a not empty and a's sequence a proper prefix of b's.
C11_Witness ==
  /\ last.op = "eq" /\ last.set = "a" /\ last.other = "b"
  /\ ~last.ret
  /\ InOrder("a") # <<>>
  /\ ProperPrefix(InOrder("a"), InOrder("b"))

\* ======================================================================
\* C12: two sets that were built from empty by adding the same values in
\* two orders compare equal and render to the same text.  The values added
\* to a set are the values it holds: the formula speaks of every two sets
\* that hold the same values when t == o is asked.
C12_SameValuesAnyOrderEqual ==
  [][\A t, o \in Sets :
       (Did("eq", t, o) /\ Elems(t) = Elems(o)) =>
          /\ last'.ret
          /\ Render(Heap, root[t]) = Render(Heap, root[o])]_vars

\* The same with a comparator under which equivalent values are equal.
L12_SameValuesAnyOrderEqualTotalOrder ==
  [][\A t, o \in Sets :
       (Did("eq", t, o) /\ Elems(t) = Elems(o) /\ cmp # "coarse") =>
          /\ last'.ret
          /\ Render(Heap, root[t]) = Render(Heap, root[o])]_vars

\* ======================================================================
\* C13: on a set of n elements that is not mutated during the walk, the
\* cursor after k advances from begin() (k < n) stands on the (k+1)-th
\* element in comparator order: at most k elements come before its value
\* and more than k do not come after it.  A full walk visits every node
\* exactly once, ascending for std::less, descending for std::greater.
C13_CursorYieldsKthElement ==
  \A t \in Sets :
    (live[t] /\ status = "running") =>
      LET N == Reach(Heap, root[t])
          ns == WalkNodes(Heap, Begin(Heap, root[t]), WalkFuel)
          k == cursor.steps
          d == value[cursor.pos.cur]
      IN /\ Len(ns) = Cardinality(N)
         /\ {ns[i] : i \in 1..Len(ns)} = N
         /\ cmp = "less" => \A i \in 1..(Len(ns) - 1) : value[ns[i]] < value[ns[i + 1]]
         /\ cmp = "greater" => \A i \in 1..(Len(ns) - 1) : value[ns[i]] > value[ns[i + 1]]
         /\ (cursor.set = t /\ k < Cardinality(N)) =>
              /\ cursor.pos.cur # NULL
              /\ Cardinality({n \in N : Cmp(value[n], d)}) <= k
              /\ Cardinality({n \in N : ~Cmp(d, value[n])}) > k

\* The cursor was advanced twice on a set of three or more elements whose
\* root has two children.
C13_Witness ==
  /\ cursor.set = "a" /\ cursor.steps = 2
  /\ last.op = "advance"
  /\ Cardinality(Reach(Heap, root["a"])) >= 3
  /\ left[root["a"]] # NULL /\ right[root["a"]] # NULL
  /\ cursor.pos.cur # NULL

\* ======================================================================
\* C14: on a set of size n the cursor made by begin() equals end() after k
\* advances iff k >= n: it differs from end() before the n-th advance,
\* equals end() after it and stays there; for n = 0, begin() == end().
C14_CursorReachesEndAfterN ==
  \A t \in Sets :
    (cursor.set = t /\ status = "running") =>
      /\ IterEq(cursor.pos, End) <=> cursor.steps >= size[t]
      /\ last.ret = IterEq(cursor.pos, End)

\* The cursor was advanced once more than the two or more elements of a.
C14_Witness ==
  /\ cursor.set = "a" /\ last.op = "advance"
  /\ size["a"] >= 2
  /\ cursor.steps = size["a"] + 1
  /\ IterEq(cursor.pos, End)

\* ======================================================================
\* Observations of the set the step's call returned.

\* The heap after the step with the nodes of the returned set next to it.
ExtAfter == Ext(HeapAfter, out')

\* The in-order sequence of the returned set, and the values in it.
OutInOrder == Traverse(ExtAfter, out'.root)
OutElems == {OutInOrder[i] : i \in 1..Len(OutInOrder)}

\* The returned set == set t.
OutEquals(t) == EqCall(ExtAfter, out'.root, root'[t]) = "true"

\* The returned set holds each value of S once and nothing else, and its
\* size() says so.
OutHoldsExactly(S) ==
  /\ OutElems = S
  /\ Len(OutInOrder) = Cardinality(S)
  /\ out'.size = Cardinality(S)

\* The in-order sequence of the set c that a call built.
BuiltInOrder(c) == Traverse(c.h, c.root)

\* What t.plus(o) must have returned.  Two sets are == iff their in-order
\* sequences are the same (C11), which is how a.plus(b) == b.plus(a) is
\* compared here.
PlusAsClaimed(t, o) ==
  /\ status' = "running"
  /\ OutHoldsExactly(Elems(t) \cup Elems(o))
  /\ (root[o] = NULL => OutEquals(t))
  /\ (root[t] = NULL => OutEquals(o))
  /\ OutInOrder = BuiltInOrder(PlusCall(Ext(Heap, NoOut), root[o], root[t]))

\* C15: A.plus(B) returns a new set that holds exactly the values that are
\* in A or in B, each once; with an empty operand it equals the other
\* operand; A.plus(B) == B.plus(A).
C15_PlusIsUnion ==
  [][\A t, o \in Sets : Did("plus", t, o) => PlusAsClaimed(t, o)]_vars

\* The same where no assert fires in A.plus(B) and B.plus(A), with a
\* comparator under which equivalent values are equal.
L15_PlusIsUnionNoAbort ==
  [][\A t, o \in Sets :
       (/\ Did("plus", t, o) /\ status' = "running" /\ cmp # "coarse"
        /\ PlusCall(Ext(Heap, NoOut), root[o], root[t]).status = "running") =>
          PlusAsClaimed(t, o)]_vars

\* ======================================================================
\* The returned set is empty.
OutEmpty == out'.root = NULL /\ out'.size = 0 /\ OutInOrder = <<>>

\* What t.intersect(o) must have returned.
IntersectAsClaimed(t, o) ==
  /\ status' = "running"
  /\ OutHoldsExactly({v \in Elems(t) : \E w \in Elems(o) : Equiv(v, w)})
  /\ (root[t] = NULL \/ root[o] = NULL) => OutEmpty

\* C16: A.intersect(B) returns a new set that holds exactly the elements of
\* A that are comparator-equivalent to some element of B; with an empty
\* operand on either side it is empty.
C16_IntersectIsCommonPart ==
  [][\A t, o \in Sets : Did("intersect", t, o) => IntersectAsClaimed(t, o)]_vars

\* The same where no assert fires, with a comparator under which equivalent
\* values are equal.
L16_IntersectIsCommonPartNoAbort ==
  [][\A t, o \in Sets :
       (Did("intersect", t, o) /\ status' = "running" /\ cmp # "coarse") =>
          IntersectAsClaimed(t, o)]_vars

\* ======================================================================
\* What t.minus(o) must have returned.
MinusAsClaimed(t, o) ==
  /\ status' = "running"
  /\ OutHoldsExactly({v \in Elems(t) : ~Contains(o, v)})
  /\ (root[o] = NULL => OutEquals(t))
  /\ (root[t] = NULL => OutEmpty)

\* C17: A.minus(B) returns a new set that holds exactly the elements v of A
\* for which B.contains(v) is false; A.minus(empty) == A, and
\* empty.minus(B) is empty.
C17_MinusIsDifference ==
  [][\A t, o \in Sets : Did("minus", t, o) => MinusAsClaimed(t, o)]_vars

\* The same for the calls in which no assert fires.
L17_MinusIsDifferenceNoAbort ==
  [][\A t, o \in Sets :
       (Did("minus", t, o) /\ status' = "running") => MinusAsClaimed(t, o)]_vars

\* ======================================================================
\* What t.plus(t), t.intersect(t) and t.minus(t) must have returned; the
\* default-constructed set the last is compared with has an empty root.
SelfAsClaimed(t) ==
  /\ status' = "running"
  /\ last'.op \in {"plus", "intersect"} => OutEquals(t)
  /\ last'.op = "minus" => (OutEmpty /\ EqCall(ExtAfter, out'.root, NULL) = "true")

\* C18: for every set A reached by add/del calls, A.plus(A) == A,
\* A.intersect(A) == A, and A.minus(A) is empty: size 0 and equal to a
\* default-constructed set.
C18_SelfAlgebra ==
  [][\A t \in Sets :
       (Did("plus", t, t) \/ Did("intersect", t, t) \/ Did("minus", t, t)) =>
          SelfAsClaimed(t)]_vars

\* The same for the calls in which no assert fires.
L18_SelfAlgebraNoAbort ==
  [][\A t \in Sets :
       (/\ Did("plus", t, t) \/ Did("intersect", t, t) \/ Did("minus", t, t)
        /\ status' = "running") => SelfAsClaimed(t)]_vars

\* ======================================================================
\* No node the set t reaches is its own descendant.
Acyclic(t) ==
  \A n \in Reach(Heap, root[t]) :
    n \notin (Reach(Heap, left[n]) \cup Reach(Heap, right[n]))

\* C19: on every set reachable by construct, move, add and del calls the
\* child links form no cycle, and no call failed to return.
C19_EveryCallTerminates ==
  /\ status # "diverged"
  /\ \A t \in Sets : live[t] => Acyclic(t)

\* The same as long as no set was moved into another.
L19_EveryCallTerminatesNoMove ==
  since = 0 => (status # "diverged" /\ \A t \in Sets : live[t] => Acyclic(t))

\* ======================================================================
\* Set t has the root, the size, and below the root the nodes, values and
\* links it had before the step.
SameTree(t) ==
  /\ root'[t] = root[t]
  /\ size'[t] = size[t]
  /\ \A n \in Reach(Heap, root[t]) :
       value'[n] = value[n] /\ left'[n] = left[n] /\ right'[n] = right[n]
  /\ InOrderAfter(t) = InOrder(t)

\* C20: contains, begin, cursor advance, ==, !=, plus, intersect, minus and
\* rendering leave the receiver and the argument set unchanged: the same
\* tree shape, elements and size() after the call as before.
C20_QueriesChangeNothing ==
  [][last'.op \in Queries => \A t \in Sets : live[t] => SameTree(t)]_vars

\* a.plus(b) returned a set of two or more elements, both operands not empty.
C20_Witness ==
  /\ last.op = "plus" /\ last.set = "a" /\ last.other = "b"
  /\ status = "running"
  /\ root["a"] # NULL /\ root["b"] # NULL
  /\ out.size >= 2

\* ======================================================================
\* C21: os << s writes "[", the elements in in-order order (ascending for
\* std::less, descending for std::greater) with one "," between each two
\* adjacent elements and none before the first or after the last, then "]",
\* and nothing else; the empty set is written as "[]".
C21_RenderIsBracketedCommaList ==
  [][\A t \in Sets :
       (last'.op = "render" /\ last'.set = t) =>
          LET s == InOrder(t)
              n == Len(s)
              text == out'.text
          IN /\ status' = "running"
             /\ Len(text) = IF n = 0 THEN 2 ELSE 2 * n + 1
             /\ text[1] = "[" /\ text[Len(text)] = "]"
             /\ \A i \in 1..n : text[2 * i] = Str(s[i])
             /\ \A i \in 1..(n - 1) : text[2 * i + 1] = ","
             /\ n = 0 => text = <<"[", "]">>
             /\ cmp = "less" => \A i \in 1..(n - 1) : s[i] < s[i + 1]
             /\ cmp = "greater" => \A i \in 1..(n - 1) : s[i] > s[i + 1]]_vars

\* The four values of the domain were added largest first, then smallest,
\* then the two between, and the set was written under std::less.
C21_Witness ==
  /\ last.op = "render" /\ cmp = "less"
  /\ size["a"] = MaxNodes
  /\ value[root["a"]] = MaxT /\ right[root["a"]] = NULL
  /\ Len(out.text) = 2 * MaxNodes + 1
  /\ out.text[2] = Str(MinT) /\ out.text[2 * MaxNodes] = Str(MaxT)

\* ======================================================================
\* The values of list l that no earlier value of l is equivalent to.
FirstOfEach(l) ==
  {l[i] : i \in {j \in 1..Len(l) : \A k \in 1..(j - 1) : ~Equiv(l[k], l[j])}}

\* What TreeSet t{l} must have made: the set that holds the first value of
\* each class of equivalent values of l, in order, with that size, and that
\* contains every value of l.
ListAsClaimed(t, l) ==
  /\ status' = "running"
  /\ ElemsAfter(t) = FirstOfEach(l)
  /\ Len(InOrderAfter(t)) = Cardinality(FirstOfEach(l))
  /\ size'[t] = Cardinality(FirstOfEach(l))
  /\ Increasing(InOrderAfter(t))
  /\ \A i \in 1..Len(l) : \E e \in ElemsAfter(t) : Equiv(e, l[i])

\* C22: a set constructed from a list is the set that adding the values in
\* list order to an empty set gives: later values equivalent to an earlier
\* one are dropped, size() is the number of distinct values, and every
\* listed value is contained.
C22_ListConstructsDeduplicated ==
  [][\A t \in Sets, l \in Lists :
       (last'.op = "init_list" /\ last'.set = t /\ last'.list = l) =>
          ListAsClaimed(t, l)]_vars

\* The same where no assert fires, with a comparator under which equivalent
\* values are equal; contains() finds every listed value.
L22_ListConstructsDeduplicatedNoAbort ==
  [][\A t \in Sets, l \in Lists :
       (/\ last'.op = "init_list" /\ last'.set = t /\ last'.list = l
        /\ status' = "running" /\ cmp # "coarse") =>
          /\ ListAsClaimed(t, l)
          /\ \A i \in 1..Len(l) : ContainsAfter(t, l[i])]_vars

\* ======================================================================
\* C23: after the copy assignment t = o, t has the in-order sequence and
\* size() of o whatever t held before (an empty o leaves t empty, no value
\* contained), o is unchanged, and t = t leaves t unchanged.
C23_CopyAssignGivesSameSet ==
  [][\A t, o \in Sets :
       Did("copy_assign", t, o) =>
          /\ status' = "running"
          /\ InOrderAfter(t) = InOrder(o)
          /\ size'[t] = size[o]
          /\ InOrderAfter(o) = InOrder(o)
          /\ size'[o] = size[o]
          /\ InOrder(o) = <<>> =>
               (root'[t] = NULL /\ \A v \in Vals : ~ContainsAfter(t, v))]_vars

\* b, a set of two or more elements, was assigned to a.
C23_Witness ==
  /\ last.op = "copy_assign" /\ last.set = "a" /\ last.other = "b"
  /\ size["b"] >= 2
  /\ InOrder("a") = InOrder("b")
  /\ root["a"] # root["b"]

\* ======================================================================
\* Number of nodes of set t.
Count(t) == Cardinality(Reach(Heap, root[t]))

\* C24: two cursors compare equal iff both are exhausted or they stand on
\* the same node: a cursor that is not exhausted never equals end(), and
\* cursors over two independent sets are unequal unless both are exhausted,
\* also when they stand on equal values.  The cursor of set t after j
\* advances is exhausted iff j >= Count(t), and stands on the same node as
\* the cursor after k advances iff j = k.
C24_CursorsEqualIffSameNode ==
  [][\A t, o \in Sets, k \in 0..MaxNodes :
       (Did("iter_eq", t, o) /\ last'.val = k) =>
          LET j == cursor.steps
              xdone == j >= Count(t)
              ydone == k >= Count(o)
          IN /\ status' = "running"
             /\ last'.ret <=> \/ xdone /\ ydone
                              \/ ~xdone /\ ~ydone /\ t = o /\ j = k]_vars

\* A cursor of a was compared with a cursor of b, neither exhausted, both
\* on the same value, and with different pending stacks.
C24_Witness ==
  /\ last.op = "iter_eq" /\ last.set = "a" /\ last.other = "b"
  /\ ~last.ret
  /\ cursor.pos.cur # NULL
  /\ LET y == CursorAt(Heap, root["b"], last.val) IN
       /\ y.cur # NULL
       /\ value[y.cur] = value[cursor.pos.cur]
       /\ y.stack # cursor.pos.stack

\* ======================================================================
\* C25: in a debug build no sequence of add and del calls, with values from
\* the whole domain including its smallest and largest value, makes an
\* assert(sanity_check(_root)) fail.
C25_AssertNeverFails == debug => status # "aborted"

\* An assert fails only on a tree that holds a value equivalent to the
\* smallest or to the largest value of the domain.
L25_AssertFailsOnlyWithSentinel ==
  status = "aborted" =>
    \E n \in Reach(Heap, root["a"]) : Equiv(value[n], MinT) \/ Equiv(value[n], MaxT)

\* ======================================================================
\* C26: in a debug build every add or del call that returns true runs the
\* invariant checker on the tree as it is after the mutation, before it
\* returns: a call that has returned true has left a tree the checker
\* accepts, since a tree it does not accept ends the program in the assert.
C26_CheckerRunsAfterMutation ==
  (debug /\ status = "running" /\ last.op \in {"add", "del"} /\ last.ret) =>
     SanityCheckRoot(Heap, root[last.set]) = "true"

\* The same for the add that makes the root of an empty set.
L26_CheckerRunsAfterFirstAdd ==
  (/\ debug /\ status = "running" /\ last.op = "add" /\ last.ret
   /\ size[last.set] = 1) =>
     SanityCheckRoot(Heap, root[last.set]) = "true"

\* ======================================================================
\* Every node of the subtree n has a value strictly inside its interval:
\* (lo, hi) at n, (lo, value of n) below its left link and (value of n, hi)
\* below its right link.
RECURSIVE StrictlyInside(_, _, _, _)
StrictlyInside(h, n, lo, hi) ==
  \/ n = NULL
  \/ /\ Cmp(lo, h.value[n]) /\ Cmp(h.value[n], hi)
     /\ StrictlyInside(h, h.left[n], lo, h.value[n])
     /\ StrictlyInside(h, h.right[n], h.value[n], hi)

\* Some node of the subtree n lies before the lower or after the upper end
\* of its interval: the node test that writes "has issues".
RECURSIVE HasIssues(_, _, _, _)
HasIssues(h, n, lo, hi) ==
  /\ n # NULL
  /\ \/ Cmp(h.value[n], lo) \/ Cmp(hi, h.value[n])
     \/ HasIssues(h, h.left[n], lo, h.value[n])
     \/ HasIssues(h, h.right[n], h.value[n], hi)

\* C27: sanity_check(n, minval, maxval) returns true iff every node of the
\* subtree n has a value strictly inside its interval; it returns false for
\* every tree with a node that has issues, and true for the absent subtree
\* when minval is before maxval.
C27_SanityCheckIffInsideIntervals ==
  [][\A lo, hi \in Vals :
       (last'.op = "sanity_check" /\ last'.list = <<lo, hi>>) =>
          LET n == root["a"] IN
          /\ status' = "running"
          /\ n # NULL => (last'.ret <=> StrictlyInside(Heap, n, lo, hi))
          /\ HasIssues(Heap, n, lo, hi) => ~last'.ret
          /\ (n = NULL /\ Cmp(lo, hi)) => last'.ret]_vars

\* sanity_check returned false on a tree of three nodes whose root lies
\* inside the bounds and whose left and right child lie on the right side
\* of the root: the node with issues is further down or on the wrong side
\* of a bound.
C27_Witness ==
  /\ last.op = "sanity_check" /\ ~last.ret
  /\ size["a"] >= 3
  /\ left[1] # NULL /\ right[1] # NULL
  /\ Cmp(last.list[1], value[1]) /\ Cmp(value[1], last.list[2])
  /\ Cmp(value[left[1]], value[1]) /\ Cmp(value[1], value[right[1]])
  /\ HasIssues(Heap, 1, last.list[1], last.list[2])

\* ======================================================================
\* The nodes met from n by following left links alone.
LeftSpine(h, n) ==
  {x \in Reach(h, n) :
     \E path \in UNION {[1..k -> Nodes] : k \in 1..MaxNodes} :
        /\ path[1] = n /\ path[Len(path)] = x
        /\ \A i \in 1..(Len(path) - 1) : h.left[path[i]] = path[i + 1]}

\* The heap and root the claim describes for the deletion of node n of set
\* t, whose parent is p (NULL when n is the root): the slot that held n
\* holds the merged link, the left link of the leftmost node of big holds
\* small when both are present, and every other link is as it was.
DelAsClaimed(t, n, p) ==
  LET small == left[n]
      big == right[n]
      both == small # NULL /\ big # NULL
      merged == IF small = NULL THEN big ELSE IF big = NULL THEN small ELSE big
      lm == IF both THEN CHOOSE x \in LeftSpine(Heap, big) : left[x] = NULL ELSE NULL
      held == IF p = NULL THEN "root" ELSE IF left[p] = n THEN "left" ELSE "right"
  IN [h |-> [value |-> value,
             left  |-> [x \in Nodes |-> IF both /\ x = lm THEN small
                                        ELSE IF held = "left" /\ x = p THEN merged
                                        ELSE left[x]],
             right |-> [x \in Nodes |-> IF held = "right" /\ x = p THEN merged
                                        ELSE right[x]]],
      root |-> IF held = "root" THEN merged ELSE root[t]]

\* C28: merge returns big when small is absent and small when big is
\* absent; with both present it returns big with small as the left child of
\* the leftmost node of big and no other link changed; the slot that held a
\* deleted node (the root or the parent's) then holds the merged link, which
\* is the node's right child when it had two children.
C28_MergeAttachesSmallBelowBig ==
  [][\A t \in Sets, v \in Vals :
       (Called("del", t, v) /\ last'.ret) =>
          \E w \in {DelWalk(Heap, root[t], NULL, v, {})} :
          \E c \in {DelAsClaimed(t, w.node, w.parent)} :
          \E r \in {Release(c.h, [root EXCEPT ![t] = c.root], live)} :
             /\ w.kind = "found"
             /\ value' = r.value /\ left' = r.left /\ right' = r.right
             /\ root' = r.root
             /\ (last'.kids = 2 /\ last'.atroot) => c.root = right[w.node]
             /\ (last'.kids = 2 /\ ~last'.atroot) =>
                   \/ (left[w.parent] = w.node /\ c.h.left[w.parent] = right[w.node])
                   \/ (right[w.parent] = w.node /\ c.h.right[w.parent] = right[w.node])
    ]_vars

\* C28 witness: the root had two children and was deleted; its right child,
\* which had a left child of its own, is the root now, and the former left
\* child hangs below that left child.
C28_Witness ==
  /\ last.op = "del" /\ last.ret
  /\ last.kids = 2 /\ last.atroot
  /\ size[last.set] = 3
  /\ left[root[last.set]] # NULL
  /\ left[left[root[last.set]]] # NULL

\* ======================================================================
\* The number of slots that refer to node n among the root slot of set t
\* and the child slots of the nodes t reaches.
SlotsHolding(t, n) ==
  LET R == Reach(Heap, root[t]) IN
    (IF root[t] = n THEN 1 ELSE 0)
      + Cardinality({m \in R : left[m] = n})
      + Cardinality({m \in R : right[m] = n})

\* C29: after any sequence of add and del calls the nodes a set reaches form
\* a tree: each is referenced by exactly one slot (the root slot or a child
\* slot of a reachable node) and none is its own descendant.
C29_ReachableNodesFormTree ==
  \A t \in Sets : live[t] =>
     /\ \A n \in Reach(Heap, root[t]) : SlotsHolding(t, n) = 1
     /\ Acyclic(t)

\* C29 witness: the root had two children and was deleted, and the new root
\* has two children again: merge and the root slot both rewired links.
C29_Witness ==
  /\ last.op = "del" /\ last.ret
  /\ last.kids = 2 /\ last.atroot
  /\ size[last.set] = 3
  /\ left[root[last.set]] # NULL
  /\ right[root[last.set]] # NULL

\* ======================================================================
\* C30: for every set in every state reachable through construct, copy,
\* move, add and del, size() == 0 holds iff the root is absent.
C30_SizeZeroIffNoRoot ==
  \A t \in Sets : live[t] => (size[t] = 0 <=> root[t] = NULL)

\* The same as long as no set has been moved from.
L30_SizeZeroIffNoRootNoMove ==
  since = 0 => \A t \in Sets : live[t] => (size[t] = 0 <=> root[t] = NULL)

\* ======================================================================
\* The nodes a cursor still owes: its current node, the pending nodes, and
\* the right subtrees of all of them.
Owed(it) ==
  LET held == {it.cur} \cup {it.stack[i] : i \in 1..Len(it.stack)} IN
    held \cup UNION {Reach(Heap, right[n]) : n \in held}

\* C31: while the set is not mutated, at every cursor position that is not
\* exhausted the pending stack read from top to bottom holds nodes of
\* strictly increasing values, all after the current value, and the nodes
\* still to be yielded are exactly the current node, the pending nodes and
\* the right subtrees of these; an exhausted cursor has an empty stack.
C31_PendingStackIsAscendingRest ==
  (cursor.set # "none" /\ status = "running") =>
     LET it == cursor.pos
         st == it.stack
         rest == WalkNodes(Heap, it, WalkFuel)
     IN IF it.cur = NULL THEN st = <<>>
        ELSE /\ \A i \in 1..(Len(st) - 1) : Cmp(value[st[i + 1]], value[st[i]])
             /\ \A i \in 1..Len(st) : Cmp(value[it.cur], value[st[i]])
             /\ {rest[i] : i \in 1..Len(rest)} = Owed(it)
             /\ Len(rest) = Cardinality(Owed(it))

\* C31 witness: after an advance two nodes are pending below a current node.
C31_Witness ==
  /\ cursor.set = "a" /\ last.op = "advance"
  /\ cursor.pos.cur # NULL
  /\ Len(cursor.pos.stack) = 2

\* ======================================================================
\* The slots of set t that hold no node: the root slot of a set without
\* root, and the absent child slots of the nodes it reaches.
AbsentSlots(t) ==
  {<<"root", NULL>> : x \in {root[t]} \cap {NULL}}
    \cup {<<"left", n>> : n \in {m \in Reach(Heap, root[t]) : left[m] = NULL}}
    \cup {<<"right", n>> : n \in {m \in Reach(Heap, root[t]) : right[m] = NULL}}

\* The heap and roots with a new leaf id holding v put into slot s of set t
\* and nothing else touched.
WithLeaf(t, s, id, v) ==
  [value |-> [value EXCEPT ![id] = v],
   left  |-> [n \in Nodes |-> IF n = id THEN NULL
                              ELSE IF s = <<"left", n>> THEN id ELSE left[n]],
   right |-> [n \in Nodes |-> IF n = id THEN NULL
                              ELSE IF s = <<"right", n>> THEN id ELSE right[n]],
   root  |-> [u \in Sets |-> IF u = t /\ s[1] = "root" THEN id ELSE root[u]]]

\* C32: a successful add(v) creates exactly one node, a leaf holding v, in a
\* slot that was absent (the root slot when the set was empty); the value
\* and the links of every node that existed are as before but for that slot.
C32_AddAttachesOneLeaf ==
  [][\A t \in Sets, v \in Vals :
       (Called("add", t, v) /\ last'.ret) =>
          \E s \in AbsentSlots(t), id \in Free :
          \E w \in {WithLeaf(t, s, id, v)} :
          \E r \in {Release([value |-> w.value, left |-> w.left, right |-> w.right],
                            w.root, live)} :
             /\ value' = r.value /\ left' = r.left /\ right' = r.right
             /\ root' = r.root
             /\ (s[1] = "root") <=> (size[t] = 0)
    ]_vars

\* C32 witness: add returned true and its leaf is the left child of a node
\* that is not the root and that has a right child as well.
C32_Witness ==
  /\ last.op = "add" /\ last.ret
  /\ \E p, n \in Reach(Heap, root[last.set]) :
       /\ p # root[last.set]
       /\ left[p] = n /\ right[p] # NULL
       /\ value[n] = last.val /\ left[n] = NULL /\ right[n] = NULL

\* ======================================================================
\* C33: in check_add_del_ordering, once every value of add_order has been
\* added to the empty set and size() is their number, contains(v) returns
\* false for each of the values, before any is deleted and again after all
\* have been deleted.
C33_ContainsFalseBeforeAndAfterDeletes ==
  [][/\ (last'.op = "check_present" /\ size["a"] = Len(last'.list)) => ~last'.ret
     /\ (last'.op = "check_absent" /\ size["a"] = 0) => ~last'.ret]_vars

\* What contains does return there: true for each value before the deletes,
\* false for each after them.
L33_ContainsTrueBeforeFalseAfter ==
  [][/\ (last'.op = "check_present" /\ size["a"] = Len(last'.list)) => last'.ret
     /\ (last'.op = "check_absent" /\ size["a"] = 0) => ~last'.ret]_vars

====
